---- MODULE Spec2Model ----
(***************************************************************************)
(* Bodega Verde cash reconciliation engine.                                *)
(*                                                                         *)
(* Money is held in integer cents (a JavaScript number with two decimals), *)
(* percentages in hundredths of a percent.  A nullable column is <<>> when *)
(* NULL and <<v>> when it holds v.  The orders and cash_reports tables are *)
(* sequences in rowid (insertion) order, which is the order the SELECTs of *)
(* reconcileDate return their rows in; the reconciliations table is a set  *)
(* of rows, each with its own id.                                          *)
(***************************************************************************)
EXTENDS Integers, Sequences, FiniteSets, TLC

VARIABLES orders, reports, ledger, nruns, result, pc, loc, writer, undo

vars == <<orders, reports, ledger, nruns, result, pc, loc, writer, undo>>

(***************************************************************************)
(* Bounds of the model.                                                    *)
(***************************************************************************)
MaxRuns == 2
MaxClaims == 2

\* reconciler.js:4-5
HIGH_PRIORITY_AMOUNT == 100
HIGH_PRIORITY_PCT == 10

Stores == {"S1", "S2"}
Dates == {"D1", "D2"}
NoStore == "undefined"
NULL == <<>>
Some(v) == <<v>>

(***************************************************************************)
(* Helpers.                                                                *)
(***************************************************************************)
Range(s) == {s[i] : i \in 1..Len(s)}

Abs(n) == IF n < 0 THEN -n ELSE n

MaxOf(S) == CHOOSE m \in S : \A x \in S : x <= m

RECURSIVE GCD(_, _)
GCD(a, b) == IF b = 0 THEN a ELSE GCD(b, a % b)

\* Math.round of the rational num/den (den > 0): nearest integer, a tie
\* going towards +Infinity.
MathRound(num, den) ==
  LET q == num \div den
      r == num % den
  IN IF 2 * r >= den THEN q + 1 ELSE q

(***************************************************************************)
(* IEEE-754 double evaluation.  The arguments round2 receives are doubles. *)
(* When the exact value of n*100 is a tie k + 1/2 the double product can   *)
(* lie just below the tie, and Math.round then returns k instead of k+1.   *)
(* The two sets list the arguments, within the amounts of this model, for  *)
(* which the double computed by the source expression lies below the tie   *)
(* (evaluated with binary64 arithmetic, operation by operation).           *)
(*   AllocBelowTie: <<E, S, T>> for ((E/100)/(S/100))*(T/100)*100          *)
(*   PctBelowTie:   <<v, E>>    for ((v/100)/(E/100))*100*100              *)
(***************************************************************************)
AllocBelowTie ==
  { <<100, 400, 230>>, <<10000, 40000, 230>>, <<20000, 80000, 230>>,
    <<30000, 120000, 230>>, <<50000, 200000, 230>> }

PctBelowTie ==
  { <<-16333, 20000>>, <<-15455, 20000>>, <<-15333, 20000>>,
    <<-14677, 20000>>, <<-13333, 20000>>, <<-12533, 20000>>,
    <<-12509, 20000>>, <<-12143, 20000>>, <<-10917, 20000>>,
    <<-10841, 20000>>, <<-10673, 20000>>, <<-10009, 20000>>,
    <<-4095, 20000>>, <<-1667, 20000>>, <<-85, 20000>>, <<2825, 20000>>,
    <<12895, 20000>>, <<13223, 20000>>, <<14739, 20000>>, <<23825, 20000>>,
    <<26053, 20000>>, <<58431, 20000>> }

\* round2(n) = Math.round(n * 100) / 100, in cents: num/den is the exact
\* value of n*100 and belowTie tells that its double lies below a tie.
round2(num, den, belowTie) ==
  MathRound(num, den) - (IF belowTie THEN 1 ELSE 0)

(***************************************************************************)
(* The stored order_ids TEXT of a cash report.  The ingest route stores    *)
(* JSON.stringify(list), modelled as [kind |-> "array", ids |-> list].     *)
(* The column is TEXT NOT NULL with no other constraint; a text that is    *)
(* not JSON is kind "garbage", the JSON text of a string is kind "string"  *)
(* with ids the characters of the string, and the JSON text of a number, a *)
(* boolean, null or an object is kind "scalar".                            *)
(***************************************************************************)
JsonArray(ids) == [kind |-> "array", ids |-> ids]

NotJson == [kind |-> "garbage", ids |-> <<>>]

JsonString(chars) == [kind |-> "string", ids |-> chars]

JsonScalar == [kind |-> "scalar", ids |-> <<>>]

\* reconcileDate: try { parsedIds = JSON.parse(report.order_ids) } catch { parsedIds = [] }
\* An array gives its elements and a string its characters to the for-of.
parsedIds(report) ==
  IF report.order_ids.kind \in {"array", "string"} THEN report.order_ids.ids ELSE <<>>

\* for (const oid of parsedIds) throws a TypeError, outside the try, when
\* JSON.parse returned a number, a boolean, null or an object.
Iterable(report) == report.order_ids.kind # "scalar"

AllIterable(reps) == \A i \in 1..Len(reps) : Iterable(reps[i])

(***************************************************************************)
(* reconcileDate, steps 1 and 2: the scoped SELECTs.  `if (store_id)`      *)
(* adds the store condition only for a truthy store_id.                    *)
(***************************************************************************)
\* Mutant: the orders are fetched whatever their pickup date.
InOrderScope_AnyDate(o, date, store_id) ==
  store_id # NoStore => o.store_id = store_id

InOrderScope(o, date, store_id) ==
  /\ o.pickup_date = date
  /\ (store_id # NoStore => o.store_id = store_id)

InReportScope(r, date, store_id) ==
  /\ r.report_date = date
  /\ (store_id # NoStore => r.store_id = store_id)

\* Mutant: the orders of the date are fetched whatever their store.
FetchOrders_AnyStore(tbl, date, store_id) ==
  SelectSeq(tbl, LAMBDA o : o.pickup_date = date)

FetchOrders(tbl, date, store_id) ==
  SelectSeq(tbl, LAMBDA o : InOrderScope(o, date, store_id))

\* Mutant: the cash reports of the date are fetched whatever their store.
FetchReports_AnyStore(tbl, date, store_id) ==
  SelectSeq(tbl, LAMBDA r : r.report_date = date)

FetchReports(tbl, date, store_id) ==
  SelectSeq(tbl, LAMBDA r : InReportScope(r, date, store_id))

(***************************************************************************)
(* Step 3: orderToReport.  Every id of every fetched report is set in the  *)
(* map in iteration order, so the last report listing an id keeps it.      *)
(* The result is the index of the claiming report in reps, 0 for none.     *)
(***************************************************************************)
\* Mutant: the first report listing an id keeps it.
orderToReport_FirstWins(reps, oid) ==
  LET idx == {i \in 1..Len(reps) : oid \in Range(parsedIds(reps[i]))}
  IN IF idx = {} THEN 0 ELSE CHOOSE m \in idx : \A x \in idx : m <= x

orderToReport(reps, oid) ==
  LET idx == {i \in 1..Len(reps) : oid \in Range(parsedIds(reps[i]))}
  IN IF idx = {} THEN 0 ELSE MaxOf(idx)

(***************************************************************************)
(* Step 4: reportExpectedSum.  For each entry of parsedIds, in order,      *)
(* orders.find(o => o.order_id === oid) and, when found, sum += expected.  *)
(***************************************************************************)
FindOrder(ords, oid) ==
  LET idx == {i \in 1..Len(ords) : ords[i].order_id = oid}
  IN IF idx = {} THEN 0 ELSE CHOOSE m \in idx : \A x \in idx : m <= x

RECURSIVE SumOverIds(_, _)
SumOverIds(ords, ids) ==
  IF ids = <<>> THEN 0
  ELSE LET i == FindOrder(ords, Head(ids))
       IN (IF i = 0 THEN 0 ELSE ords[i].expected_amount) + SumOverIds(ords, Tail(ids))

\* Mutant: the denominator is the sum over all the fetched orders.
reportExpectedSum_AllOrders(ords, report) ==
  SumOverIds(ords, [k \in 1..Len(ords) |-> ords[k].order_id])

reportExpectedSum(ords, report) == SumOverIds(ords, parsedIds(report))

(***************************************************************************)
(* Step 5: allocation and classification of one order.                     *)
(***************************************************************************)
\* round2((order.expected_amount / sumExpected) * claimingReport.total_collected),
\* the exact quotient E*T/S taken in lowest terms to stay within 32 bits.
Share(E, S, T) ==
  LET g1 == GCD(E, S)
      e  == E \div g1
      s  == S \div g1
      g2 == GCD(T, s)
  IN round2(e * (T \div g2), s \div g2, <<E, S, T>> \in AllocBelowTie)

\* Mutant: a report whose claimed orders expect nothing allocates nothing.
actualAmountOf_NothingWhenNoSum(E, S, T) ==
  IF S > 0 THEN Share(E, S, T) ELSE 0

actualAmountOf(E, S, T) ==
  IF S > 0 THEN Share(E, S, T) ELSE round2(T, 1, FALSE)

\* round2(actualAmount - order.expected_amount)
varianceAmountOf(A, E) == round2(A - E, 1, FALSE)

\* expected !== 0 ? round2((varianceAmount / expected) * 100) : 0
variancePctOf(v, E) ==
  IF E # 0 THEN round2(v * 10000, E, <<v, E>> \in PctBelowTie) ELSE 0

\* Mutant: the noise threshold is 0.5 instead of 0.005.
IsNoise_HalfUnit(v) == 2 * Abs(v) < 100

\* Math.abs(varianceAmount) < 0.005, in cents: |v| < 1/2
IsNoise(v) == 2 * Abs(v) < 1

\* Mutant: the status follows the sign alone, no variance is noise.
statusOf_SignOnly(v) ==
  IF v >= 0 THEN "over_collection" ELSE "under_collection"

statusOf(v) ==
  IF IsNoise(v) THEN "matched"
  ELSE IF v > 0 THEN "over_collection"
  ELSE "under_collection"

\* Mutant: the thresholds are inclusive.
isHighPriorityOf_Inclusive(v, p) ==
  IF Abs(v) >= HIGH_PRIORITY_AMOUNT * 100 \/ Abs(p) >= HIGH_PRIORITY_PCT * 100
  THEN 1 ELSE 0

\* |varianceAmount| > HIGH_PRIORITY_AMOUNT || |variancePct| > HIGH_PRIORITY_PCT
isHighPriorityOf(v, p) ==
  IF Abs(v) > HIGH_PRIORITY_AMOUNT * 100 \/ Abs(p) > HIGH_PRIORITY_PCT * 100
  THEN 1 ELSE 0

\* No cash report references this order.
UnaccountedFields ==
  [report_id |-> NULL, actual_amount |-> NULL, variance_amount |-> NULL,
   variance_pct |-> NULL, status |-> "unaccounted", is_high_priority |-> 0]

\* The order is claimed by report, whose claimed orders expect S in all.
ClaimedFields(order, report, S) ==
  LET E  == order.expected_amount
      A  == actualAmountOf(E, S, report.total_collected)
      v0 == varianceAmountOf(A, E)
      p0 == variancePctOf(v0, E)
      v  == IF IsNoise(v0) THEN 0 ELSE v0
      p  == IF IsNoise(v0) THEN 0 ELSE p0
  IN [report_id |-> Some(report.report_id), actual_amount |-> Some(A),
      variance_amount |-> Some(v), variance_pct |-> Some(p),
      status |-> statusOf(v0), is_high_priority |-> isHighPriorityOf(v, p)]

\* The record of the k-th fetched order; now is the run's clock, which
\* stands for both the fresh uuid and the reconciled_at timestamp.
RecordOf(ords, reps, k, date, now) ==
  LET order == ords[k]
      c     == orderToReport(reps, order.order_id)
      base  == [id |-> <<now, k>>, order_id |-> order.order_id,
                store_id |-> order.store_id, reconciliation_date |-> date,
                expected_amount |-> round2(order.expected_amount, 1, FALSE),
                reconciled_at |-> now]
  IN IF c = 0
     THEN base @@ UnaccountedFields
     ELSE base @@ ClaimedFields(order, reps[c], reportExpectedSum(ords, reps[c]))

\* Mutant: orders without a claiming report are skipped.
ComputeRecords_SkipUnclaimed(ords, reps, date, now) ==
  LET claimed == SelectSeq(ords, LAMBDA o : orderToReport(reps, o.order_id) # 0)
  IN [k \in 1..Len(claimed) |-> RecordOf(claimed, reps, k, date, now)]

\* const records = []; for (const order of orders) records.push({...})
ComputeRecords(ords, reps, date, now) ==
  [k \in 1..Len(ords) |-> RecordOf(ords, reps, k, date, now)]

(***************************************************************************)
(* Step 6: the delete-then-insert transaction.  Statement 0 is the DELETE  *)
(* of the scope, statement k the INSERT of records[k].  failAt is the      *)
(* statement that throws, Len(records) + 1 when none does.                 *)
(***************************************************************************)
InLedgerScope(r, date, store_id) ==
  /\ r.reconciliation_date = date
  /\ (store_id # NoStore => r.store_id = store_id)

\* Mutant: the store condition is applied also when no store is given.
deleteStmt_AlwaysStore(tbl, date, store_id) ==
  {r \in tbl : ~(r.reconciliation_date = date /\ r.store_id = store_id)}

\* Mutant: only the unaccounted records of the scope are deleted.
deleteStmt_KeepsClaimed(tbl, date, store_id) ==
  {r \in tbl : ~(InLedgerScope(r, date, store_id) /\ r.status = "unaccounted")}

\* Mutant: the records of the date are deleted whatever their store.
deleteStmt_WholeDate(tbl, date, store_id) ==
  {r \in tbl : r.reconciliation_date # date}

deleteStmt(tbl, date, store_id) ==
  {r \in tbl : ~InLedgerScope(r, date, store_id)}

insertStmt(tbl, rec) == tbl \cup {rec}

RECURSIVE InsertFirst(_, _, _)
InsertFirst(tbl, recs, n) ==
  IF n = 0 THEN tbl
  ELSE insertStmt(InsertFirst(tbl, recs, n - 1), recs[n])

\* Mutant: the inserts run without the DELETE.
StatementsBefore_NoDelete(tbl, date, store_id, recs, failAt) ==
  IF failAt = 0 THEN tbl ELSE InsertFirst(tbl, recs, failAt - 1)

\* The table once the statements before failAt have run.
StatementsBefore(tbl, date, store_id, recs, failAt) ==
  IF failAt = 0 THEN tbl
  ELSE InsertFirst(deleteStmt(tbl, date, store_id), recs, failAt - 1)

\* Mutant: the statements run outside a transaction, nothing is undone.
Rollback_KeepsPartial(before, partial) == partial

\* better-sqlite3 db.transaction: ROLLBACK when the function throws.
Rollback(before, partial) == before

runTransaction(tbl, date, store_id, recs, failAt) ==
  LET after == StatementsBefore(tbl, date, store_id, recs, failAt)
  IN IF failAt > Len(recs) THEN after ELSE Rollback(tbl, after)

(***************************************************************************)
(* The ingest routes: INSERT OR IGNORE of every parsed row, in file order, *)
(* order_id and report_id being UNIQUE.                                    *)
(***************************************************************************)
Order(oid, store, date, amount) ==
  [order_id |-> oid, store_id |-> store, pickup_date |-> date,
   expected_amount |-> amount]

Report(rid, store, date, total, ids) ==
  [report_id |-> rid, store_id |-> store, report_date |-> date,
   total_collected |-> total, order_ids |-> JsonArray(ids)]

\* Mutant: INSERT OR REPLACE, the uploaded row takes the place of the stored one.
InsertOrIgnoreOrder_Replace(tbl, row) ==
  IF \E i \in 1..Len(tbl) : tbl[i].order_id = row.order_id
  THEN [i \in 1..Len(tbl) |-> IF tbl[i].order_id = row.order_id THEN row ELSE tbl[i]]
  ELSE Append(tbl, row)

InsertOrIgnoreOrder(tbl, row) ==
  IF \E i \in 1..Len(tbl) : tbl[i].order_id = row.order_id
  THEN tbl ELSE Append(tbl, row)

InsertOrIgnoreReport(tbl, row) ==
  IF \E i \in 1..Len(tbl) : tbl[i].report_id = row.report_id
  THEN tbl ELSE Append(tbl, row)

\* result.changes > 0 ? inserted++ : skipped++, then the rows that follow.
Counted(changed, rest) ==
  [tbl |-> rest.tbl,
   inserted |-> rest.inserted + (IF changed THEN 1 ELSE 0),
   skipped |-> rest.skipped + (IF changed THEN 0 ELSE 1)]

RECURSIVE insertManyOrders(_, _)
insertManyOrders(tbl, rows) ==
  IF rows = <<>> THEN [tbl |-> tbl, inserted |-> 0, skipped |-> 0]
  ELSE Counted(InsertOrIgnoreOrder(tbl, Head(rows)) # tbl,
               insertManyOrders(InsertOrIgnoreOrder(tbl, Head(rows)), Tail(rows)))

RECURSIVE insertManyReports(_, _)
insertManyReports(tbl, rows) ==
  IF rows = <<>> THEN [tbl |-> tbl, inserted |-> 0, skipped |-> 0]
  ELSE Counted(InsertOrIgnoreReport(tbl, Head(rows)) # tbl,
               insertManyReports(InsertOrIgnoreReport(tbl, Head(rows)), Tail(rows)))

\* The CSV files the uploads of this model draw from.
OrderFiles ==
  { << Order("O1", "S1", "D1", 50000), Order("O2", "S1", "D1", 30000) >>,
    << Order("O3", "S2", "D1", 20000), Order("O4", "S1", "D2", 50000),
       Order("O1", "S2", "D1", 10000) >> }

ReportFiles ==
  { << Report("R1", "S1", "D1", 80000, <<"O1", "O2">>),
       Report("R4", "S1", "D2", 40000, <<"O4", "O4", "O9">>) >>,
    << Report("R2", "S1", "D1", 55000, <<"O1">>),
       Report("R3", "S2", "D1", 30000, <<"O3", "O1">>) >> }

(***************************************************************************)
(* State.  result is what the last call returned (ok is FALSE when it      *)
(* threw, failedAt then being the statement that failed), with two history *)
(* fields: before, the ledger when the call began, and rerun, whether the  *)
(* call before it was a successful reconcileDate of the same scope.        *)
(***************************************************************************)
NoResult ==
  [op |-> "none", ok |-> TRUE, date |-> "", store_id |-> NoStore,
   records |-> <<>>, failedAt |-> -1, before |-> {}, rerun |-> FALSE,
   inserted |-> 0, skipped |-> 0, total |-> 0,
   to |-> "", visited |-> <<>>, status |-> 0, reconciled |-> 0,
   late |-> FALSE, rows |-> <<>>, upload |-> <<>>]

Procs == {"p1", "p2"}

IdleLoc == [date |-> "", store_id |-> NoStore, records |-> <<>>, k |-> 0, now |-> 0]

InitProcs ==
  /\ pc = [p \in Procs |-> "idle"]
  /\ loc = [p \in Procs |-> IdleLoc]
  /\ writer = "none"
  /\ undo = {}

Init ==
  /\ orders = <<>>
  /\ reports = <<>>
  /\ ledger = {}
  /\ nruns = 0
  /\ result = NoResult
  /\ InitProcs

\* router.post('/orders'): insertMany(rows) and the inserted/skipped counts.
IngestOrders(file) ==
  /\ \E done \in {insertManyOrders(orders, file)} :
       /\ orders' = done.tbl
       /\ result' = [NoResult EXCEPT !.op = "ingest_orders", !.before = ledger,
                       !.status = 200, !.rows = file,
                       !.inserted = done.inserted, !.skipped = done.skipped,
                       !.total = Len(file)]
  /\ UNCHANGED <<reports, ledger, nruns, pc, loc, writer, undo>>

\* router.post('/cash-reports')
IngestCashReports(file) ==
  /\ \E done \in {insertManyReports(reports, file)} :
       /\ reports' = done.tbl
       /\ result' = [NoResult EXCEPT !.op = "ingest_reports", !.before = ledger,
                       !.status = 200, !.rows = file,
                       !.inserted = done.inserted, !.skipped = done.skipped,
                       !.total = Len(file)]
  /\ UNCHANGED <<orders, ledger, nruns, pc, loc, writer, undo>>

\* reconcileDate(date, store_id), the whole call.  fails tells whether a
\* statement of its transaction throws; the call then throws too.
ReconcileCall(date, store_id, fails) ==
  LET now  == nruns + 1
      ords == FetchOrders(orders, date, store_id)
      reps == FetchReports(reports, date, store_id)
      recs == ComputeRecords(ords, reps, date, now)
  IN /\ IF AllIterable(reps)
        THEN \E failAt \in (IF fails THEN 0..Len(recs) ELSE {Len(recs) + 1}) :
               /\ ledger' = runTransaction(ledger, date, store_id, recs, failAt)
               /\ result' = [NoResult EXCEPT
                               !.op = "reconcile", !.ok = ~fails,
                               !.date = date, !.store_id = store_id,
                               !.records = IF fails THEN <<>> ELSE recs,
                               !.failedAt = IF fails THEN failAt ELSE -1,
                               !.before = ledger,
                               !.rerun = /\ result.op = "reconcile" /\ result.ok
                                         /\ result.date = date
                                         /\ result.store_id = store_id]
        ELSE \* the TypeError of step 3 ends the call before its transaction
             /\ ~fails
             /\ ledger' = ledger
             /\ result' = [NoResult EXCEPT
                             !.op = "reconcile", !.ok = FALSE,
                             !.date = date, !.store_id = store_id,
                             !.failedAt = -2, !.before = ledger]
     /\ nruns' = nruns + 1
     /\ UNCHANGED <<orders, reports, pc, loc, writer, undo>>

reconcileDate(date, store_id) ==
  /\ nruns < MaxRuns
  /\ \E fails \in BOOLEAN : ReconcileCall(date, store_id, fails)

(***************************************************************************)
(* Dates are texts.  D1 stands for "2024-09-30" and D2, the day after, for *)
(* "2024-10-01"; D1x stands for "2024-9-30", the same day as D1 written    *)
(* without the zero.  The batch route compares the texts of from and to    *)
(* with >, which is the order of the strings, and reconcileDateRange       *)
(* parses them with new Date(text + "T00:00:00Z").                         *)
(***************************************************************************)
DateSeq == << "D1", "D2" >>

DateTexts == {"D1", "D2", "D1x"}

\* The place of a text in the order of the strings:
\* "2024-09-30" < "2024-10-01" < "2024-9-30".
LexRank(text) == CASE text = "D1" -> 1 [] text = "D2" -> 2 [] text = "D1x" -> 3

\* new Date(text + "T00:00:00Z") as an index of DateSeq, 0 for Invalid Date.
\* The parse of a text that is not in the ISO format is left to the engine:
\* lenient tells whether it reads the text as its day or gives Invalid Date.
ParseDate(text, lenient) ==
  CASE text = "D1" -> 1 [] text = "D2" -> 2
    [] text = "D1x" -> IF lenient THEN 1 ELSE 0

\* Mutant: the loop stops before the end date.
RangeDates_Exclusive(from, to, lenient) ==
  LET current == ParseDate(from, lenient)
      end     == ParseDate(to, lenient)
  IN IF current = 0 \/ end = 0 \/ current >= end THEN <<>>
     ELSE SubSeq(DateSeq, current, end - 1)

\* The days the while loop visits, each as toISOString().slice(0, 10) gives
\* it; a comparison with Invalid Date is false.
RangeDates(from, to, lenient) ==
  LET current == ParseDate(from, lenient)
      end     == ParseDate(to, lenient)
  IN IF current = 0 \/ end = 0 \/ current > end THEN <<>>
     ELSE SubSeq(DateSeq, current, end)

\* The loop of reconcileDateRange over dates: one reconcileDate call, with
\* its own transaction, per day.  The call of day failDay throws (0: no
\* call throws), at its DELETE or, when late, at its last INSERT, and ends
\* the loop; the days before it stay committed.  visited lists the dates
\* reconcileDate was called for.
\* What the loop returns when the call of a day threw.
DayThrew(tbl, date) ==
  [ledger |-> tbl, records |-> <<>>, ok |-> FALSE, visited |-> <<date>>]

\* allRecords.push(...dayRecords) before the rest of the loop.
DayThen(date, recs, rest) ==
  [ledger |-> rest.ledger,
   records |-> IF rest.ok THEN recs \o rest.records ELSE <<>>,
   ok |-> rest.ok, visited |-> <<date>> \o rest.visited]

\* Mutant: the loop catches the failure of a day and goes on to the next.
RECURSIVE RangeLoop_KeepsGoing(_, _, _, _, _, _)
RangeLoop_KeepsGoing(tbl, dates, store_id, now, failDay, late) ==
  IF dates = <<>> THEN [ledger |-> tbl, records |-> <<>>, ok |-> TRUE, visited |-> <<>>]
  ELSE LET date == Head(dates)
           reps == FetchReports(reports, date, store_id)
           recs == ComputeRecords(FetchOrders(orders, date, store_id), reps, date, now)
       IN IF failDay = 1
          THEN [DayThen(date, <<>>,
                        RangeLoop_KeepsGoing(tbl, Tail(dates), store_id, now + 1, 0, late))
                  EXCEPT !.ok = FALSE, !.records = <<>>]
          ELSE DayThen(date, recs,
                       RangeLoop_KeepsGoing(runTransaction(tbl, date, store_id, recs, Len(recs) + 1),
                                            Tail(dates), store_id, now + 1, failDay - 1, late))

RECURSIVE RangeLoop(_, _, _, _, _, _)
RangeLoop(tbl, dates, store_id, now, failDay, late) ==
  IF dates = <<>> THEN [ledger |-> tbl, records |-> <<>>, ok |-> TRUE, visited |-> <<>>]
  ELSE LET date == Head(dates)
           reps == FetchReports(reports, date, store_id)
           recs == ComputeRecords(FetchOrders(orders, date, store_id), reps, date, now)
       IN IF ~AllIterable(reps) THEN DayThrew(tbl, date)
          ELSE IF failDay = 1
          THEN DayThrew(runTransaction(tbl, date, store_id, recs,
                                       IF late THEN Len(recs) ELSE 0), date)
          ELSE DayThen(date, recs,
                       RangeLoop(runTransaction(tbl, date, store_id, recs, Len(recs) + 1),
                                 Tail(dates), store_id, now + 1, failDay - 1, late))

\* The response of the call, run being what its loop returned.
RangeResult(from, to, store_id, op, failDay, late, run) ==
  [NoResult EXCEPT
     !.op = op, !.ok = run.ok,
     !.date = from, !.to = to, !.store_id = store_id,
     !.records = run.records,
     !.failedAt = failDay, !.late = late,
     !.before = ledger,
     !.visited = run.visited,
     !.status = IF op # "reconcile_range" /\ run.ok THEN 200 ELSE 0,
     !.reconciled = Len(run.records)]

\* A loop of reconcileDate calls over dates, made by op.
LoopCall(dates, from, to, store_id, op) ==
  /\ nruns + Len(dates) <= MaxRuns
  /\ \E failDay \in 0..Len(dates), late \in BOOLEAN :
       /\ (failDay = 0 => ~late)
       /\ \E run \in {RangeLoop(ledger, dates, store_id, nruns + 1, failDay, late)} :
            /\ ledger' = run.ledger
            /\ nruns' = nruns + Len(run.visited)
            /\ result' = RangeResult(from, to, store_id, op, failDay, late, run)
  /\ UNCHANGED <<orders, reports, pc, loc, writer, undo>>

\* A call of reconcileDateRange(from, to, store_id) made by op.
RangeCall(from, to, store_id, op) ==
  \E lenient \in (IF {from, to} \subseteq Dates THEN {TRUE} ELSE BOOLEAN) :
    LoopCall(RangeDates(from, to, lenient), from, to, store_id, op)

reconcileDateRange(from, to, store_id) ==
  RangeCall(from, to, store_id, "reconcile_range")

Next ==
  \/ \E file \in OrderFiles : IngestOrders(file)
  \/ \E file \in ReportFiles : IngestCashReports(file)
  \/ \E date \in Dates, store_id \in Stores \cup {NoStore} : reconcileDate(date, store_id)
  \/ \E from \in Dates, to \in Dates, store_id \in Stores \cup {NoStore} :
        reconcileDateRange(from, to, store_id)

Spec == Init /\ [][Next]_vars

(***************************************************************************)
(* SpecCalc: one reconcileDate call of date D1 over orders and cash        *)
(* reports drawn from bounded sets.  InitGrid varies the amounts of two    *)
(* orders of one store and the total and claim list of one report;         *)
(* InitStruct varies the stores and the claim lists of two reports.        *)
(***************************************************************************)
GridAmounts == {0, 100, 300, 20000, 30000, 50000, 100000}
GridTotals == {0, 230, 40000, 50000, 55000, 56000, 70000, 110000}
StructAmounts == { <<30000, 20000>>, <<0, 0>>, <<0, 30000>> }
StructTotals == {0, 30000, 55000}

\* The claim lists of at most MaxClaims entries over ids.
RECURSIVE ClaimLists(_, _)
ClaimLists(ids, n) ==
  IF n = 0 THEN { <<>> }
  ELSE LET shorter == ClaimLists(ids, n - 1)
       IN shorter \cup {Append(l, i) : l \in shorter, i \in ids}

InitGrid ==
  /\ \E a1 \in GridAmounts, a2 \in GridAmounts :
       orders = << Order("O1", "S1", "D1", a1), Order("O2", "S1", "D1", a2) >>
  /\ \E t \in GridTotals, ids \in ClaimLists({"O1", "O2"}, MaxClaims) :
       reports = << Report("R1", "S1", "D1", t, ids) >>

InitStruct ==
  /\ \E a \in StructAmounts, s2 \in Stores :
       orders = << Order("O1", "S1", "D1", a[1]), Order("O2", s2, "D1", a[2]) >>
  /\ \E t1 \in StructTotals, s2 \in Stores,
        ids1 \in ClaimLists({"O1", "O2", "O9"}, MaxClaims),
        ids2 \in ClaimLists({"O1", "O2", "O9"}, MaxClaims) :
       reports = << Report("R1", "S1", "D1", t1, ids1),
                    Report("R2", s2, "D1", 55000, ids2) >>

InitCalc ==
  /\ InitGrid \/ InitStruct
  /\ ledger = {}
  /\ nruns = 0
  /\ result = NoResult
  /\ InitProcs

CalcReconcile(store_id) ==
  /\ nruns = 0
  /\ ReconcileCall("D1", store_id, FALSE)

NextCalc == \E store_id \in Stores \cup {NoStore} : CalcReconcile(store_id)

SpecCalc == InitCalc /\ [][NextCalc]_vars

(***************************************************************************)
(* SpecParse: one reconcileDate call of date D1 over two cash reports, R1  *)
(* with an order_ids text of any kind and R2 with a JSON array, stored in  *)
(* either order.  One order has a one-character id, which the characters   *)
(* of a JSON string can name.                                              *)
(***************************************************************************)
ReportText(rid, store, date, total, text) ==
  [report_id |-> rid, store_id |-> store, report_date |-> date,
   total_collected |-> total, order_ids |-> text]

OrderIdTexts ==
  { NotJson, JsonScalar, JsonString(<<"7">>), JsonString(<<"O", "1">>),
    JsonArray(<<"O1">>), JsonArray(<<>>) }

ParseTotals == {0, 25000, 55000}

InitParse ==
  /\ orders = << Order("O1", "S1", "D1", 30000), Order("O2", "S1", "D1", 20000),
                 Order("7", "S1", "D1", 10000) >>
  /\ \E text \in OrderIdTexts, t1 \in ParseTotals, t2 \in ParseTotals,
        ids2 \in ClaimLists({"O1", "O2"}, MaxClaims), first \in BOOLEAN :
       LET R1 == ReportText("R1", "S1", "D1", t1, text)
           R2 == Report("R2", "S1", "D1", t2, ids2)
       IN reports = IF first THEN << R1, R2 >> ELSE << R2, R1 >>
  /\ ledger = {}
  /\ nruns = 0
  /\ result = NoResult
  /\ InitProcs

NextParse == \E store_id \in Stores \cup {NoStore} : CalcReconcile(store_id)

SpecParse == InitParse /\ [][NextParse]_vars

(***************************************************************************)
(* SpecConc: reconcileDate calls of several server processes that share    *)
(* the database file.  A call reads the orders and the cash reports,       *)
(* computes its records, then runs its transaction statement by statement  *)
(* on the shared table; undo is what a ROLLBACK restores.  SQLite admits   *)
(* one writing transaction at a time: the DELETE, the first write, takes   *)
(* the write lock or fails with SQLITE_BUSY, and COMMIT or ROLLBACK frees  *)
(* it.                                                                     *)
(***************************************************************************)
ConcOrders ==
  << Order("O1", "S1", "D1", 50000), Order("O2", "S1", "D1", 30000),
     Order("O3", "S2", "D1", 20000), Order("O4", "S1", "D2", 50000) >>

ConcReports ==
  << Report("R1", "S1", "D1", 80000, <<"O1", "O2">>),
     Report("R3", "S2", "D1", 30000, <<"O3", "O1">>) >>

InitConc ==
  /\ orders = ConcOrders
  /\ reports \in {<<>>, ConcReports}
  /\ ledger = {}
  /\ nruns = 0
  /\ result = NoResult
  /\ InitProcs

\* Lines 46-176 of a call by process p: the reads and the records.
Begin(p, date, store_id) ==
  /\ pc[p] = "idle"
  /\ nruns < MaxRuns
  /\ nruns' = nruns + 1
  /\ loc' = [loc EXCEPT ![p] =
               [date |-> date, store_id |-> store_id, k |-> 0, now |-> nruns + 1,
                records |-> ComputeRecords(FetchOrders(orders, date, store_id),
                                           FetchReports(reports, date, store_id),
                                           date, nruns + 1)]]
  /\ pc' = [pc EXCEPT ![p] = "computed"]
  /\ UNCHANGED <<orders, reports, ledger, result, writer, undo>>

\* Mutant: a write does not wait for the write lock.
CanWrite_NoLock(p) == TRUE

\* The write lock of the database file is free.
CanWrite(p) == writer = "none"

\* BEGIN and the DELETE of the scope.
TxnDelete(p) ==
  /\ pc[p] = "computed"
  /\ CanWrite(p)
  /\ writer' = p
  /\ undo' = ledger
  /\ ledger' = deleteStmt(ledger, loc[p].date, loc[p].store_id)
  /\ pc' = [pc EXCEPT ![p] = "txn"]
  /\ UNCHANGED <<orders, reports, nruns, result, loc>>

\* The next INSERT of the loop.
TxnInsert(p) ==
  /\ pc[p] = "txn"
  /\ loc[p].k < Len(loc[p].records)
  /\ ledger' = insertStmt(ledger, loc[p].records[loc[p].k + 1])
  /\ loc' = [loc EXCEPT ![p].k = @ + 1]
  /\ UNCHANGED <<orders, reports, nruns, result, pc, writer, undo>>

CallResult(p, ok, before) ==
  [NoResult EXCEPT !.op = "reconcile", !.ok = ok, !.date = loc[p].date,
                   !.store_id = loc[p].store_id,
                   !.records = IF ok THEN loc[p].records ELSE <<>>,
                   !.failedAt = IF ok THEN -1 ELSE loc[p].k,
                   !.before = before]

\* COMMIT; the call returns its records.
TxnCommit(p) ==
  /\ pc[p] = "txn"
  /\ loc[p].k = Len(loc[p].records)
  /\ writer' = "none"
  /\ undo' = {}
  /\ result' = CallResult(p, TRUE, undo)
  /\ pc' = [pc EXCEPT ![p] = "idle"]
  /\ loc' = [loc EXCEPT ![p] = IdleLoc]
  /\ UNCHANGED <<orders, reports, ledger, nruns>>

\* A statement throws: the DELETE before it took the lock (SQLITE_BUSY
\* included), or a statement inside the transaction, which is rolled back.
TxnFail(p) ==
  /\ pc[p] \in {"computed", "txn"}
  /\ IF pc[p] = "txn"
     THEN /\ ledger' = Rollback(undo, ledger)
          /\ writer' = "none"
          /\ undo' = {}
          /\ result' = CallResult(p, FALSE, undo)
     ELSE /\ result' = CallResult(p, FALSE, ledger)
          /\ UNCHANGED <<ledger, writer, undo>>
  /\ pc' = [pc EXCEPT ![p] = "idle"]
  /\ loc' = [loc EXCEPT ![p] = IdleLoc]
  /\ UNCHANGED <<orders, reports, nruns>>

NextConc ==
  \E p \in Procs :
    \/ \E date \in Dates, store_id \in Stores \cup {NoStore} : Begin(p, date, store_id)
    \/ TxnDelete(p)
    \/ TxnInsert(p)
    \/ TxnCommit(p)
    \/ TxnFail(p)

SpecConc == InitConc /\ [][NextConc]_vars

(***************************************************************************)
(* SpecIngest: the processes of SpecConc while uploads reach the server.   *)
(* The reads of a reconcileDate call are autocommit statements outside its *)
(* write transaction, so the transaction of an upload can commit between   *)
(* the reads of a call and its DELETE.  An upload is one write transaction *)
(* and runs when the write lock is free.                                   *)
(***************************************************************************)
\* The files that are uploaded while the processes run.
LateOrderFile ==
  << Order("O2", "S1", "D1", 30000), Order("O3", "S2", "D1", 20000) >>

LateReportFile ==
  << Report("R1", "S1", "D1", 80000, <<"O1", "O2">>) >>

InitIngest ==
  /\ orders = << Order("O1", "S1", "D1", 50000), Order("O4", "S1", "D2", 50000) >>
  /\ reports = <<>>
  /\ ledger = {}
  /\ nruns = 0
  /\ result = NoResult
  /\ InitProcs

\* router.post('/orders') of another request: insertMany(rows).
UploadOrders(file) ==
  /\ CanWrite("upload")
  /\ IngestOrders(file)

\* router.post('/cash-reports') of another request.
UploadCashReports(file) ==
  /\ CanWrite("upload")
  /\ IngestCashReports(file)

NextIngest ==
  \/ NextConc
  \/ UploadOrders(LateOrderFile)
  \/ UploadCashReports(LateReportFile)

SpecIngest == InitIngest /\ [][NextIngest]_vars

(***************************************************************************)
(* SpecBatch: range reconciliations over stored orders and cash reports,   *)
(* called directly with ISO dates, as the function documents its           *)
(* parameters, or through POST /reconcile/batch with the texts of the      *)
(* request body.  The ledger starts empty or as an earlier reconcileDate   *)
(* of the second day left it.                                              *)
(***************************************************************************)
NoDate == ""

\* Mutant: only the first pickup date is reconciled.
PickupDates_FirstOnly ==
  SubSeq(SelectSeq(DateSeq, LAMBDA d : \E i \in 1..Len(orders) : orders[i].pickup_date = d),
         1, 1)

\* SELECT DISTINCT pickup_date FROM orders ORDER BY pickup_date
PickupDates ==
  SelectSeq(DateSeq, LAMBDA d : \E i \in 1..Len(orders) : orders[i].pickup_date = d)

\* router.post('/reconcile'): every pickup date when the body has no date.
PostReconcile(date, store_id) ==
  IF date = NoDate
  THEN LoopCall(PickupDates, NoDate, NoDate, store_id, "reconcile_all")
  ELSE LoopCall(<<date>>, date, date, store_id, "reconcile_one")

\* router.post('/reconcile/batch')
PostReconcileBatch(from, to, store_id) ==
  IF from = NoDate \/ to = NoDate \/ LexRank(from) > LexRank(to)
  THEN /\ result' = [NoResult EXCEPT !.op = "batch", !.ok = FALSE, !.status = 400,
                                     !.date = from, !.to = to, !.store_id = store_id,
                                     !.before = ledger]
       /\ UNCHANGED <<orders, reports, ledger, nruns, pc, loc, writer, undo>>
  ELSE RangeCall(from, to, store_id, "batch")

EarlierLedger ==
  LET recs == ComputeRecords(FetchOrders(ConcOrders, "D2", NoStore),
                             FetchReports(ConcReports, "D2", NoStore), "D2", 0)
  IN runTransaction({}, "D2", NoStore, recs, Len(recs) + 1)

InitBatch ==
  /\ orders = ConcOrders
  /\ reports \in {<<>>, ConcReports}
  /\ ledger \in {{}, EarlierLedger}
  /\ nruns = 0
  /\ result = NoResult
  /\ InitProcs

NextBatch ==
  \/ \E from \in Dates, to \in Dates, store_id \in Stores \cup {NoStore} :
        reconcileDateRange(from, to, store_id)
  \/ \E from \in DateTexts \cup {NoDate}, to \in DateTexts \cup {NoDate},
        store_id \in Stores \cup {NoStore} :
        PostReconcileBatch(from, to, store_id)
  \/ \E date \in Dates \cup {NoDate}, store_id \in Stores \cup {NoStore} :
        PostReconcile(date, store_id)

SpecBatch == InitBatch /\ [][NextBatch]_vars

(***************************************************************************)
(* SpecUpload: the two upload routes over CSV files as they arrive.  A     *)
(* file is [present, headers, rows]: whether the request holds a file,     *)
(* whether the header line has every required column, and the data rows.   *)
(* A number column arrives as text: kind "number" for a text such as       *)
(* "500.00", "negative" for "-5.00", "garbage" for "abc" or the empty      *)
(* text, and "prefix" for a text such as "12abc" that begins with a        *)
(* number; value is what parseFloat reads, in cents.                       *)
(***************************************************************************)
MaxRows == 2

NumberText(kind, value) == [kind |-> kind, value |-> value]

\* parseFloat reads the longest numeric prefix and gives NaN when there is none.
IsNaN(text) == text.kind = "garbage"

parseFloat(text) == text.value

RawOrder(oid, amount) ==
  [order_id |-> oid, store_id |-> "S1", pickup_date |-> "D1", expected_amount |-> amount]

\* order_ids of a cash report row: a comma list, a JSON array, or a text
\* that begins with [ and is not JSON.
RawReport(rid, total, idsKind, ids) ==
  [report_id |-> rid, store_id |-> "S1", report_date |-> "D1",
   total_collected |-> total, order_ids |-> [kind |-> idsKind, ids |-> ids]]

RawOrderRows ==
  { RawOrder("O1", NumberText("number", 50000)),
    RawOrder("O2", NumberText("prefix", 1200)),
    RawOrder("O1", NumberText("garbage", 0)),
    RawOrder("O2", NumberText("negative", -500)),
    RawOrder("", NumberText("number", 50000)) }

RawReportRows ==
  { RawReport("R1", NumberText("number", 80000), "csv", <<"O1", "O2">>),
    RawReport("R2", NumberText("prefix", 1200), "json", <<"O1">>),
    RawReport("R2", NumberText("garbage", 0), "csv", <<"O2">>),
    RawReport("", NumberText("number", 80000), "csv", <<"O1">>),
    RawReport("R1", NumberText("number", 30000), "badjson", <<>>) }

\* The sequences of at most n rows.
RECURSIVE RowLists(_, _)
RowLists(rows, n) ==
  IF n = 0 THEN { <<>> }
  ELSE LET shorter == RowLists(rows, n - 1)
       IN shorter \cup {Append(l, r) : l \in shorter, r \in rows}

NoFile == [present |-> FALSE, headers |-> FALSE, rows |-> <<>>]

\* No file, the files with every required column, and the one-row files
\* that lack a column.
CsvFiles(rows) ==
  {NoFile}
    \cup {[present |-> TRUE, headers |-> TRUE, rows |-> l] : l \in RowLists(rows, MaxRows)}
    \cup {[present |-> TRUE, headers |-> FALSE, rows |-> <<r>>] : r \in rows}

Thrown(status) == [ok |-> FALSE, status |-> status, rows |-> <<>>]

\* validateColumns: 'CSV file is empty', then 'Missing required columns'.
validateColumns(csv) == csv.rows # <<>> /\ csv.headers

\* The index of the first row the map callback throws on, 0 when none.
FirstBadOrderRow(rows) ==
  LET bad == {i \in 1..Len(rows) :
                \/ IsNaN(rows[i].expected_amount)
                \/ parseFloat(rows[i].expected_amount) < 0
                \/ rows[i].order_id = ""}
  IN IF bad = {} THEN 0 ELSE CHOOSE m \in bad : \A x \in bad : m <= x

parseOrdersCsv(csv) ==
  IF ~validateColumns(csv) THEN Thrown(400)
  ELSE IF FirstBadOrderRow(csv.rows) # 0 THEN Thrown(400)
  ELSE [ok |-> TRUE, status |-> 200,
        rows |-> [i \in 1..Len(csv.rows) |->
                    Order(csv.rows[i].order_id, csv.rows[i].store_id,
                          csv.rows[i].pickup_date,
                          parseFloat(csv.rows[i].expected_amount))]]

\* The status of what the callback throws on row, 0 when it returns: 400
\* for the two checks, none (-1) for the SyntaxError of JSON.parse.
ReportRowThrows(row) ==
  IF IsNaN(row.total_collected) \/ parseFloat(row.total_collected) < 0 THEN 400
  ELSE IF row.report_id = "" THEN 400
  ELSE IF row.order_ids.kind = "badjson" THEN -1
  ELSE 0

FirstBadReportRow(rows) ==
  LET bad == {i \in 1..Len(rows) : ReportRowThrows(rows[i]) # 0}
  IN IF bad = {} THEN 0 ELSE CHOOSE m \in bad : \A x \in bad : m <= x

parseCashReportsCsv(csv) ==
  IF ~validateColumns(csv) THEN Thrown(400)
  ELSE IF FirstBadReportRow(csv.rows) # 0
  THEN Thrown(ReportRowThrows(csv.rows[FirstBadReportRow(csv.rows)]))
  ELSE [ok |-> TRUE, status |-> 200,
        rows |-> [i \in 1..Len(csv.rows) |->
                    Report(csv.rows[i].report_id, csv.rows[i].store_id,
                           csv.rows[i].report_date,
                           parseFloat(csv.rows[i].total_collected),
                           csv.rows[i].order_ids.ids)]]

\* The request is answered or fails before any statement runs.
Rejected(op, csv, status) ==
  /\ result' = [NoResult EXCEPT !.op = op, !.ok = FALSE, !.status = status,
                                !.upload = csv, !.before = ledger]
  /\ UNCHANGED <<orders, reports, ledger, nruns, pc, loc, writer, undo>>

\* router.post('/orders') from the uploaded file on.
PostOrders(csv) ==
  IF ~csv.present THEN Rejected("ingest_orders", csv, 400)
  ELSE IF ~parseOrdersCsv(csv).ok
  THEN Rejected("ingest_orders", csv, parseOrdersCsv(csv).status)
  ELSE \E done \in {insertManyOrders(orders, parseOrdersCsv(csv).rows)} :
         /\ orders' = done.tbl
         /\ result' = [NoResult EXCEPT !.op = "ingest_orders", !.before = ledger,
                         !.status = 200, !.rows = parseOrdersCsv(csv).rows,
                         !.upload = csv,
                         !.inserted = done.inserted, !.skipped = done.skipped,
                         !.total = Len(csv.rows)]
         /\ UNCHANGED <<reports, ledger, nruns, pc, loc, writer, undo>>

\* router.post('/cash-reports') from the uploaded file on.
PostCashReports(csv) ==
  IF ~csv.present THEN Rejected("ingest_reports", csv, 400)
  ELSE IF ~parseCashReportsCsv(csv).ok
  THEN Rejected("ingest_reports", csv, parseCashReportsCsv(csv).status)
  ELSE \E done \in {insertManyReports(reports, parseCashReportsCsv(csv).rows)} :
         /\ reports' = done.tbl
         /\ result' = [NoResult EXCEPT !.op = "ingest_reports", !.before = ledger,
                         !.status = 200, !.rows = parseCashReportsCsv(csv).rows,
                         !.upload = csv,
                         !.inserted = done.inserted, !.skipped = done.skipped,
                         !.total = Len(csv.rows)]
         /\ UNCHANGED <<orders, ledger, nruns, pc, loc, writer, undo>>

NextUpload ==
  \/ \E csv \in CsvFiles(RawOrderRows) : PostOrders(csv)
  \/ \E csv \in CsvFiles(RawReportRows) : PostCashReports(csv)

SpecUpload == Init /\ [][NextUpload]_vars

(***************************************************************************)
(* SpecFine: one reconcileDate call over amounts with a third decimal.     *)
(* parseOrdersCsv and parseCashReportsCsv take every parseFloat value that *)
(* is not negative and the columns are REAL, so an expected amount or a    *)
(* total of 0.125 can be stored.  Here the amounts of the orders and the   *)
(* total of the cash report are held in half cents (expected_halves,       *)
(* total_halves); every value round2 returns stays in cents.  The sets     *)
(* Fine...BelowTie list the arguments for which the double computed by the *)
(* source expression lies below the tie its exact value is at.             *)
(***************************************************************************)
FineAmounts == {0, 25, 75, 200, 2000, 2001}
FineTotals == {0, 25, 100, 200, 201, 2000, 2010}

\* T for round2(T)
FineTotalBelowTie == {201}

\* <<E, S, T>> for round2((E / S) * T)
FineAllocBelowTie ==
  { <<25, 25, 201>>, <<75, 75, 201>>, <<200, 200, 201>>, <<2000, 2000, 201>>,
    <<2001, 2001, 201>> }

\* <<A, E>>, A in cents, for round2(A - E)
FineVarBelowTie ==
  { <<0, 2001>>, <<9, 75>>, <<11, 2001>>, <<12, 25>>, <<12, 2001>>,
    <<25, 2001>>, <<36, 75>>, <<45, 2001>>, <<50, 2001>>, <<91, 2001>>,
    <<96, 2001>>, <<100, 2001>>, <<251, 25>>, <<500, 2001>>, <<503, 2001>>,
    <<909, 2001>>, <<914, 2001>>, <<964, 2001>>, <<969, 2001>>,
    <<993, 2001>>, <<1000, 2001>>, <<1005, 2001>> }

FineOrder(oid, store, date, halves) ==
  [order_id |-> oid, store_id |-> store, pickup_date |-> date,
   expected_halves |-> halves]

FineReport(rid, store, date, halves, ids) ==
  [report_id |-> rid, store_id |-> store, report_date |-> date,
   total_halves |-> halves, order_ids |-> JsonArray(ids)]

\* Mutant: only the first listed order is summed.
FineSumOverIds_FirstOnly(ords, ids) ==
  IF ids = <<>> THEN 0
  ELSE LET i == FindOrder(ords, Head(ids))
       IN IF i = 0 THEN 0 ELSE ords[i].expected_halves

\* reportExpectedSum, in half cents.
RECURSIVE FineSumOverIds(_, _)
FineSumOverIds(ords, ids) ==
  IF ids = <<>> THEN 0
  ELSE LET i == FindOrder(ords, Head(ids))
       IN (IF i = 0 THEN 0 ELSE ords[i].expected_halves) + FineSumOverIds(ords, Tail(ids))

\* Lines 134-136: E * T / S half cents is E * T / (2 * S) cents.
FineActualAmountOf(E, S, T) ==
  IF S > 0 THEN round2(E * T, 2 * S, <<E, S, T>> \in FineAllocBelowTie)
  ELSE round2(T, 2, T \in FineTotalBelowTie)

\* Lines 130-159 for an amount E in half cents: actualAmount - E is
\* (2A - E)/2 cents and (varianceAmount / E) * 100 is v * 20000 / E
\* hundredths of a percent.
FineClaimedFields(order, report, S) ==
  LET E  == order.expected_halves
      A  == FineActualAmountOf(E, S, report.total_halves)
      v0 == round2(2 * A - E, 2, <<A, E>> \in FineVarBelowTie)
      p0 == IF E # 0 THEN round2(v0 * 20000, E, FALSE) ELSE 0
      v  == IF IsNoise(v0) THEN 0 ELSE v0
      p  == IF IsNoise(v0) THEN 0 ELSE p0
  IN [report_id |-> Some(report.report_id), actual_amount |-> Some(A),
      variance_amount |-> Some(v), variance_pct |-> Some(p),
      status |-> statusOf(v0), is_high_priority |-> isHighPriorityOf(v, p)]

\* Lines 116-176; expected_amount: round2(order.expected_amount).
FineRecordOf(ords, reps, k, date, now) ==
  LET order == ords[k]
      c     == orderToReport(reps, order.order_id)
      base  == [id |-> <<now, k>>, order_id |-> order.order_id,
                store_id |-> order.store_id, reconciliation_date |-> date,
                expected_amount |-> round2(order.expected_halves, 2, FALSE),
                reconciled_at |-> now]
  IN IF c = 0
     THEN base @@ UnaccountedFields
     ELSE base @@ FineClaimedFields(order, reps[c],
                                    FineSumOverIds(ords, parsedIds(reps[c])))

InitFine ==
  /\ \E a1 \in FineAmounts, a2 \in FineAmounts :
       orders = << FineOrder("O1", "S1", "D1", a1), FineOrder("O2", "S1", "D1", a2) >>
  /\ \E t \in FineTotals, ids \in { <<"O1">>, <<"O1", "O2">> } :
       reports = << FineReport("R1", "S1", "D1", t, ids) >>
  /\ ledger = {}
  /\ nruns = 0
  /\ result = NoResult
  /\ InitProcs

\* reconcileDate('D1', store_id), no statement of its transaction failing.
FineReconcile(store_id) ==
  /\ nruns = 0
  /\ LET ords == FetchOrders(orders, "D1", store_id)
         reps == FetchReports(reports, "D1", store_id)
         recs == [k \in 1..Len(ords) |-> FineRecordOf(ords, reps, k, "D1", 1)]
     IN /\ ledger' = runTransaction(ledger, "D1", store_id, recs, Len(recs) + 1)
        /\ result' = [NoResult EXCEPT !.op = "reconcile", !.date = "D1",
                                      !.store_id = store_id, !.records = recs,
                                      !.before = ledger]
  /\ nruns' = 1
  /\ UNCHANGED <<orders, reports, pc, loc, writer, undo>>

NextFine == \E store_id \in Stores \cup {NoStore} : FineReconcile(store_id)

SpecFine == InitFine /\ [][NextFine]_vars

(***************************************************************************)
(* Properties.                                                             *)
(***************************************************************************)
IsRun == result.op = "reconcile"
RunOk == IsRun /\ result.ok

\* The stored orders in the scope of the last call.
ScopeOrders ==
  {i \in 1..Len(orders) : InOrderScope(orders[i], result.date, result.store_id)}

\* The stored cash reports the last call fetched.
ScopeReports ==
  {i \in 1..Len(reports) : InReportScope(reports[i], result.date, result.store_id)}

\* What a ledger record says, its id and timestamp left out.
Content(r) ==
  [order_id |-> r.order_id, report_id |-> r.report_id, store_id |-> r.store_id,
   reconciliation_date |-> r.reconciliation_date,
   expected_amount |-> r.expected_amount, actual_amount |-> r.actual_amount,
   variance_amount |-> r.variance_amount, variance_pct |-> r.variance_pct,
   status |-> r.status, is_high_priority |-> r.is_high_priority]

ScopeOf(tbl) == {r \in tbl : InLedgerScope(r, result.date, result.store_id)}

\* C1: after any sequence of reconcileDate and reconcileDateRange calls, of
\* any dates and stores,
\* re-runs and overlapping scopes included, the ledger never holds two
\* records with the same (order_id, reconciliation_date) pair.
C1_NoDuplicatePairs ==
  \A r1 \in ledger, r2 \in ledger :
    (r1.order_id = r2.order_id /\ r1.reconciliation_date = r2.reconciliation_date)
      => r1 = r2

\* A run of a store scope has replaced the record an unfiltered run left.
C1_Witness ==
  /\ RunOk /\ result.store_id # NoStore
  /\ \E old \in result.before, new \in ledger :
       /\ old.order_id = new.order_id
       /\ old.reconciliation_date = new.reconciliation_date
       /\ old.id # new.id
  /\ \E r \in ledger : r.store_id # result.store_id

\* C2: when reconcileDate returns, every order of its scope has exactly one
\* record in the returned list and exactly one record in the ledger for the
\* date.
C2_Completeness ==
  RunOk =>
    \A i \in ScopeOrders :
      /\ Cardinality({k \in 1..Len(result.records) :
                        result.records[k].order_id = orders[i].order_id}) = 1
      /\ Cardinality({r \in ledger :
                        /\ r.order_id = orders[i].order_id
                        /\ r.reconciliation_date = result.date}) = 1

\* A run over a scope of two orders, one of them claimed by no report.
C2_Witness ==
  /\ RunOk
  /\ Cardinality(ScopeOrders) >= 2
  /\ \E k \in 1..Len(result.records) : result.records[k].status = "unaccounted"
  /\ \E k \in 1..Len(result.records) : result.records[k].status # "unaccounted"

\* C3: when a statement of the transaction fails, the call fails and the
\* ledger is exactly what it was before the call.
C3_RollbackRestores ==
  (IsRun /\ ~result.ok) => (ledger = result.before /\ result.records = <<>>)

\* The second insert failed in a scope that held records before the call.
C3_Witness ==
  /\ IsRun /\ ~result.ok /\ result.failedAt >= 2
  /\ ScopeOf(result.before) # {}

\* C4: a second reconcileDate of the same scope, orders and cash reports
\* unchanged, leaves records of the scope with the content the first run
\* left; only id and reconciled_at may differ.
C4_Idempotent ==
  (RunOk /\ result.rerun) =>
    /\ {Content(r) : r \in ScopeOf(ledger)} = {Content(r) : r \in ScopeOf(result.before)}
    /\ Cardinality(ScopeOf(ledger)) = Cardinality(ScopeOf(result.before))

\* A re-run over claimed and unclaimed orders that gave every record a new id.
C4_Witness ==
  /\ RunOk /\ result.rerun
  /\ \E r \in ScopeOf(ledger) : r.report_id # NULL
  /\ \E r \in ScopeOf(ledger) : r.report_id = NULL
  /\ \A r \in ScopeOf(ledger) : r \notin result.before

\* The ids a stored cash report lists, and the fetched orders among them.
ListedIds(rep) == Range(parsedIds(rep))

ExpectedOf(oid) == orders[FindOrder(orders, oid)].expected_amount

RecordIndex(oid) ==
  {k \in 1..Len(result.records) : result.records[k].order_id = oid}

RecordOfId(oid) == result.records[CHOOSE k \in RecordIndex(oid) : TRUE]

ClaimedFetched(rep) == {oid \in ListedIds(rep) : RecordIndex(oid) # {}}

RECURSIVE SumExpected(_)
SumExpected(ids) ==
  IF ids = {} THEN 0
  ELSE LET x == CHOOSE y \in ids : TRUE
       IN ExpectedOf(x) + SumExpected(ids \ {x})

RECURSIVE SumActual(_)
SumActual(ids) ==
  IF ids = {} THEN 0
  ELSE LET x == CHOOSE y \in ids : TRUE
       IN RecordOfId(x).actual_amount[1] + SumActual(ids \ {x})

\* The entries of a claim list that name a fetched order, repeats kept.
MatchedEntries(rep) ==
  SelectSeq(parsedIds(rep), LAMBDA oid : RecordIndex(oid) # {})

RECURSIVE SumActualEntries(_)
SumActualEntries(ids) ==
  IF ids = <<>> THEN 0
  ELSE RecordOfId(Head(ids)).actual_amount[1] + SumActualEntries(Tail(ids))

RECURSIVE SumExpectedEntries(_)
SumExpectedEntries(ids) ==
  IF ids = <<>> THEN 0
  ELSE ExpectedOf(Head(ids)) + SumExpectedEntries(Tail(ids))

C7_UnclaimedIsUnaccounted ==
  RunOk =>
    \A k \in 1..Len(result.records) :
      LET r == result.records[k]
      IN (\A i \in ScopeReports : r.order_id \notin ListedIds(reports[i])) =>
           /\ r.status = "unaccounted"
           /\ r.report_id = NULL
           /\ r.actual_amount = NULL
           /\ r.variance_amount = NULL
           /\ r.variance_pct = NULL
           /\ r.is_high_priority = 0

\* An order listed only by a report of another store, out of the scope of a
\* store-filtered run that fetched a report with a positive total.
C7_Witness ==
  /\ RunOk
  /\ \E k \in 1..Len(result.records) :
       /\ result.records[k].status = "unaccounted"
       /\ \E i \in 1..Len(reports) :
            /\ i \notin ScopeReports
            /\ result.records[k].order_id \in ListedIds(reports[i])
  /\ \E j \in ScopeReports :
       reports[j].total_collected > 0 /\ ClaimedFetched(reports[j]) # {}

\* C8: for a claimed order with expected amount E > 0 and allocated amount A,
\* variance_amount is A - E; status is matched iff |A - E| < 0.005, and then
\* variance_amount and variance_pct are 0; over_collection iff A - E is
\* positive beyond that threshold; under_collection iff it is negative
\* beyond it.
C8_Classification ==
  RunOk =>
    \A k \in 1..Len(result.records) :
      LET r == result.records[k]
          E == ExpectedOf(r.order_id)
      IN (r.report_id # NULL /\ E > 0) =>
           LET d     == r.actual_amount[1] - E
               small == 2 * Abs(d) < 1
           IN /\ r.variance_amount = Some(d)
              /\ (r.status = "matched") <=> small
              /\ small => (r.variance_amount = Some(0) /\ r.variance_pct = Some(0))
              /\ (r.status = "over_collection") <=> (d > 0 /\ ~small)
              /\ (r.status = "under_collection") <=> (d < 0 /\ ~small)

\* One run that matched one order and over-collected another.
C8_Witness ==
  /\ RunOk
  /\ \E k \in 1..Len(result.records) :
       result.records[k].status = "matched" /\ result.records[k].expected_amount > 0
  /\ \E k \in 1..Len(result.records) :
       result.records[k].status = "over_collection" /\ result.records[k].expected_amount > 0

\* C9: a record with a claiming report is high priority iff
\* |variance_amount| > 100 or |variance_pct| > 10, both strict, on the stored
\* values; expected 500 with report total 400 gives variance -100, -20 % and
\* high priority.
C9_HighPriority ==
  RunOk =>
    \A k \in 1..Len(result.records) :
      LET r == result.records[k]
      IN r.report_id # NULL =>
           /\ (r.is_high_priority = 1) <=>
                ( \/ Abs(r.variance_amount[1]) > 100 * 100
                  \/ Abs(r.variance_pct[1]) > 10 * 100 )
           /\ r.is_high_priority \in {0, 1}
           /\ (r.expected_amount = 50000 /\ r.actual_amount = Some(40000)) =>
                /\ r.variance_amount = Some(-10000)
                /\ r.variance_pct = Some(-2000)
                /\ r.is_high_priority = 1

\* A variance of exactly 100.00 at exactly 10 %, not high priority.
C9_Witness ==
  /\ RunOk
  /\ \E k \in 1..Len(result.records) :
       /\ result.records[k].variance_amount = Some(10000)
       /\ result.records[k].variance_pct = Some(1000)
       /\ result.records[k].is_high_priority = 0

\* (E / S) * T rounded to cents, a half going away from zero (E, T >= 0).
HalfAwayShare(E, S, T) ==
  LET g1  == GCD(E, S)
      s   == S \div g1
      g2  == GCD(T, s)
      num == (E \div g1) * (T \div g2)
      den == s \div g2
  IN (num \div den) + (IF 2 * (num % den) >= den THEN 1 ELSE 0)

\* C10: for an order with expected amount E claimed by a report of total T
\* whose claimed orders expect S > 0 in all, actual_amount is (E / S) * T
\* rounded once to 2 decimals, halves away from zero; orders of 300.00 and
\* 200.00 under one report of 550.00 get 330.00 and 220.00.
C10_ShareRoundsHalfAway ==
  RunOk =>
    \A k \in 1..Len(result.records) :
      LET r == result.records[k]
      IN r.report_id # NULL =>
           \A i \in ScopeReports :
             (Some(reports[i].report_id) = r.report_id
               /\ SumExpectedEntries(MatchedEntries(reports[i])) > 0) =>
                r.actual_amount =
                  Some(HalfAwayShare(ExpectedOf(r.order_id),
                                     SumExpectedEntries(MatchedEntries(reports[i])),
                                     reports[i].total_collected))

\* C6: two concurrent reconcileDate runs never overlap their delete-and-
\* insert phases: at most one process is inside its transaction, and when a
\* run has committed and no transaction is open the scope holds exactly the
\* records that run returned, one per order of the scope.
C6_TransactionsSerialized ==
  /\ \A p \in Procs, q \in Procs :
       (p # q) => ~(pc[p] = "txn" /\ pc[q] = "txn")
  /\ (RunOk /\ writer = "none") =>
       /\ ScopeOf(ledger) = Range(result.records)
       /\ \A i \in ScopeOrders :
            Cardinality({r \in ledger :
                           /\ r.order_id = orders[i].order_id
                           /\ r.reconciliation_date = result.date}) = 1

\* One run is between two inserts while another run of the same scope has
\* computed its records and waits to write.
C6_Witness ==
  \E p \in Procs, q \in Procs :
    /\ pc[p] = "txn" /\ loc[p].k >= 1 /\ loc[p].k < Len(loc[p].records)
    /\ pc[q] = "computed" /\ Len(loc[q].records) >= 2
    /\ loc[q].date = loc[p].date /\ loc[q].store_id = loc[p].store_id

\* The fetched cash reports of the last call, in iteration order.
FetchedReports == FetchReports(reports, result.date, result.store_id)

\* The last fetched report that lists oid, 0 when none does.
LastListing(oid) ==
  LET idx == {i \in 1..Len(FetchedReports) : oid \in ListedIds(FetchedReports[i])}
  IN IF idx = {} THEN 0 ELSE CHOOSE m \in idx : \A x \in idx : x <= m

\* C11: when several fetched cash reports list an order id, the record of
\* the order carries the report_id and the allocation of the report that
\* comes last in the iteration order; the run does not fail and the record
\* has one of the four statuses.
C11_LastReportWins ==
  IsRun =>
    /\ result.ok
    /\ \A k \in 1..Len(result.records) :
         LET r == result.records[k]
             j == LastListing(r.order_id)
         IN j # 0 =>
              LET rep == FetchedReports[j]
                  S   == SumExpectedEntries(MatchedEntries(rep))
              IN /\ r.report_id = Some(rep.report_id)
                 /\ r.actual_amount =
                      Some(actualAmountOf(r.expected_amount, S, rep.total_collected))
                 /\ r.status \in {"matched", "over_collection", "under_collection"}

\* Two fetched reports with different totals list one order; its record
\* carries the second report and a positive allocation.
C11_Witness ==
  /\ RunOk
  /\ \E k \in 1..Len(result.records) :
       LET r == result.records[k]
       IN /\ Cardinality({i \in 1..Len(FetchedReports) :
                            r.order_id \in ListedIds(FetchedReports[i])}) = 2
          /\ r.report_id = Some("R2")
          /\ r.actual_amount # NULL /\ r.actual_amount # Some(0)
          /\ FetchedReports[1].total_collected # FetchedReports[2].total_collected

\* C12 as claimed: when the order_ids text of a fetched cash report is not
\* a JSON list, reconcileDate completes, that report claims no order, and
\* the records are those of the same run without that report.
C12_MalformedListIgnored ==
  IsRun =>
    LET good == SelectSeq(FetchedReports, LAMBDA rep : rep.order_ids.kind = "array")
        bad  == {i \in 1..Len(FetchedReports) : FetchedReports[i].order_ids.kind # "array"}
        recs == ComputeRecords(FetchOrders(orders, result.date, result.store_id),
                               good, result.date, 1)
    IN bad # {} =>
         /\ result.ok
         /\ \A i \in bad, k \in 1..Len(result.records) :
              result.records[k].report_id # Some(FetchedReports[i].report_id)
         /\ [k \in 1..Len(result.records) |-> Content(result.records[k])]
              = [k \in 1..Len(recs) |-> Content(recs[k])]

\* The calendar day a date text names, as an index of DateSeq.
DayOf(text) == CASE text \in {"D1", "D1x"} -> 1 [] text = "D2" -> 2

\* C13 as claimed: a range request whose start date is after its end date
\* is rejected as a caller error, reconcileDate is called for no date and
\* the ledger is unchanged.
C13_ReversedRangeRejected ==
  ( /\ result.op = "batch"
    /\ result.date # NoDate /\ result.to # NoDate
    /\ DayOf(result.date) > DayOf(result.to) )
  => /\ result.status = 400
     /\ result.visited = <<>>
     /\ ledger = result.before

\* The last call was reconcileDateRange, with ISO dates as it documents.
IsRange ==
  /\ result.op \in {"reconcile_range", "batch"}
  /\ result.status # 400
  /\ {result.date, result.to} \subseteq Dates

OfDate(tbl, date) == {r \in tbl : r.reconciliation_date = date}

\* What reconcileDate(date, store_id) returns over the stored tables.
DayRecords(date) ==
  ComputeRecords(FetchOrders(orders, date, result.store_id),
                 FetchReports(reports, date, result.store_id), date, 0)

Contents(recs) == [k \in 1..Len(recs) |-> Content(recs[k])]

\* The returns of reconcileDate for each of dates, concatenated.
RECURSIVE DayByDayRecords(_)
DayByDayRecords(dates) ==
  IF dates = <<>> THEN <<>>
  ELSE Contents(DayRecords(Head(dates))) \o DayByDayRecords(Tail(dates))

\* The ledger after reconcileDate for each of dates, one call after another.
RECURSIVE DayByDayLedger(_, _)
DayByDayLedger(tbl, dates) ==
  IF dates = <<>> THEN tbl
  ELSE DayByDayLedger(
         runTransaction(tbl, Head(dates), result.store_id, DayRecords(Head(dates)),
                        Len(DayRecords(Head(dates))) + 1),
         Tail(dates))

\* C14: for from <= to, reconcileDateRange calls reconcileDate once for
\* each date of the range in ascending order and returns the concatenation
\* of what the calls return; the ledger afterwards is the ledger that
\* reconciling each date independently, in that order, leaves.
C14_RangeIsDayByDay ==
  (IsRange /\ result.ok /\ DayOf(result.date) <= DayOf(result.to)) =>
    LET dates == SubSeq(DateSeq, DayOf(result.date), DayOf(result.to))
    IN /\ result.visited = dates
       /\ Contents(result.records) = DayByDayRecords(dates)
       /\ {Content(r) : r \in ledger}
            = {Content(r) : r \in DayByDayLedger(result.before, dates)}
       /\ Cardinality(ledger) = Cardinality(DayByDayLedger(result.before, dates))

\* A range of two days, each with orders, over a ledger that held records
\* of the second day.
C14_Witness ==
  /\ IsRange /\ result.ok
  /\ result.visited = << "D1", "D2" >>
  /\ OfDate(result.before, "D2") # {}
  /\ Len(DayRecords("D1")) >= 2 /\ Len(DayRecords("D2")) >= 1
  /\ Len(result.records) = Len(DayRecords("D1")) + Len(DayRecords("D2"))

\* C15: when reconcileDateRange fails on the k-th date of its range, the
\* records committed for the dates before it remain, the records of that
\* date are those from before the call, and the dates after it are not
\* processed.
C15_FailureKeepsEarlierDays ==
  (IsRange /\ ~result.ok /\ result.failedAt >= 1) =>
    LET first == DayOf(result.date)
        k     == result.failedAt
    IN /\ result.visited = SubSeq(DateSeq, first, first + k - 1)
       /\ \A i \in 1..Len(DateSeq) :
            LET date == DateSeq[i]
            IN IF i >= first /\ i < first + k - 1
               THEN /\ {Content(r) : r \in {x \in OfDate(ledger, date) :
                                               InLedgerScope(x, date, result.store_id)}}
                         = Range(Contents(DayRecords(date)))
                    /\ \A r \in OfDate(ledger, date) :
                         InLedgerScope(r, date, result.store_id) => r \notin result.before
               ELSE OfDate(ledger, date) = OfDate(result.before, date)

\* The call of the second day failed at its last insert; the first day is
\* committed and the second day keeps the records it had.
C15_Witness ==
  /\ IsRange /\ ~result.ok /\ result.failedAt = 2 /\ result.late
  /\ OfDate(ledger, "D1") # {} /\ OfDate(result.before, "D1") = {}
  /\ OfDate(ledger, "D2") # {} /\ OfDate(ledger, "D2") = OfDate(result.before, "D2")
  /\ Len(DayRecords("D2")) >= 1

\* C16: when no stored order is in the scope of a reconcileDate call, the
\* call returns normally with an empty record list and the ledger holds no
\* record of the scope.
C16_EmptyScope ==
  (IsRun /\ ScopeOrders = {}) =>
    /\ result.ok
    /\ result.records = <<>>
    /\ ScopeOf(ledger) = {}

\* A store with no order but with a cash report that lists the orders of
\* another store.
C16_Witness ==
  /\ RunOk /\ ScopeOrders = {} /\ Len(orders) >= 2
  /\ \E i \in ScopeReports, j \in 1..Len(orders) :
       orders[j].order_id \in ListedIds(reports[i])
  /\ result.records = <<>>

\* C17 as claimed: every ledger record with a report_id names a stored cash
\* report that lists the record's order id, has the store of the order and
\* has the record's reconciliation date as its report date.
C17_ReportOfSameStoreAndDate ==
  \A r \in ledger :
    r.report_id # NULL =>
      \E i \in 1..Len(reports) :
        /\ Some(reports[i].report_id) = r.report_id
        /\ r.order_id \in ListedIds(reports[i])
        /\ reports[i].store_id = r.store_id
        /\ reports[i].report_date = r.reconciliation_date

C19_OrdersImmutable ==
  [][ /\ Len(orders') >= Len(orders)
      /\ \A i \in 1..Len(orders) : orders'[i] = orders[i]
      /\ \A i \in 1..Len(orders'), j \in 1..Len(orders') :
           orders'[i].order_id = orders'[j].order_id => i = j
      /\ result'.op = "ingest_orders" =>
           /\ \A j \in (Len(orders) + 1)..Len(orders') :
                \E k \in 1..Len(result'.rows) :
                  /\ result'.rows[k] = orders'[j]
                  /\ \A m \in 1..(k - 1) : result'.rows[m].order_id # orders'[j].order_id
           /\ result'.inserted + result'.skipped = result'.total
           /\ result'.total = Len(result'.rows)
           /\ result'.inserted = Len(orders') - Len(orders)
           /\ (\A k \in 1..Len(result'.rows) :
                 \E i \in 1..Len(orders) : orders[i].order_id = result'.rows[k].order_id)
               => (result'.inserted = 0 /\ orders' = orders) ]_vars

\* An upload that inserted one row and skipped another whose id was stored
\* with other attributes.
C19_Witness ==
  /\ result.op = "ingest_orders"
  /\ result.inserted >= 1 /\ result.skipped >= 1
  /\ \E k \in 1..Len(result.rows), i \in 1..Len(orders) :
       /\ result.rows[k].order_id = orders[i].order_id
       /\ result.rows[k] # orders[i]

\* The text of a number column is a number that is not negative.
IsAmount(text) == text.kind = "number"

\* C20 as claimed: an upload with no data row, a missing required column, a
\* non-numeric or negative amount on some row, or an empty order_id or
\* report_id on some row fails with status 400 and inserts no row.
C20_InvalidUploadRejected ==
  [][ LET csv == result'.upload
      IN ( /\ result'.op \in {"ingest_orders", "ingest_reports"}
           /\ csv.present
           /\ \/ csv.rows = <<>>
              \/ ~csv.headers
              \/ \E i \in 1..Len(csv.rows) :
                   IF result'.op = "ingest_orders"
                   THEN ~IsAmount(csv.rows[i].expected_amount) \/ csv.rows[i].order_id = ""
                   ELSE ~IsAmount(csv.rows[i].total_collected) \/ csv.rows[i].report_id = "" )
         => ( /\ result'.status = 400
              /\ orders' = orders
              /\ reports' = reports ) ]_vars

\* C21 as claimed: the denominator of a report is the sum of the expected
\* amounts over the set of fetched orders it lists, an order listed twice
\* counting once, ids of no fetched order counting nothing and orders it
\* does not list left out; the actual_amount of every record is the share
\* taken with that denominator.
C21_DenominatorOverClaimedSet ==
  RunOk =>
    \A k \in 1..Len(result.records) :
      LET r == result.records[k]
          j == LastListing(r.order_id)
      IN j # 0 =>
           r.actual_amount =
             Some(actualAmountOf(ExpectedOf(r.order_id),
                                 SumExpected(ClaimedFetched(FetchedReports[j])),
                                 FetchedReports[j].total_collected))

Scopes == Dates \X (Stores \cup {NoStore})

Disjoint(a, b) ==
  \/ a[1] # b[1]
  \/ (a[2] # NoStore /\ b[2] # NoStore /\ a[2] # b[2])

\* The ledger a successful reconcileDate of scope over the stored orders
\* and cash reports leaves when it starts from tbl.
AfterRun(tbl, scope) ==
  LET recs == ComputeRecords(FetchOrders(orders, scope[1], scope[2]),
                             FetchReports(reports, scope[1], scope[2]), scope[1], 0)
  IN runTransaction(tbl, scope[1], scope[2], recs, Len(recs) + 1)

ContentSet(tbl) == {Content(r) : r \in tbl}

\* C23: a reconcileDate call, failed or not, leaves unchanged every ledger
\* record of another date or, with a store filter, of another store; and a
\* run of any scope disjoint from the call's, made after the call, leaves
\* the ledger content that the two runs made in the other order leave.
C23_FrameAndCommute ==
  IsRun =>
    /\ (result.before \ ScopeOf(result.before)) = (ledger \ ScopeOf(ledger))
    /\ result.ok =>
         \A other \in Scopes :
           Disjoint(other, <<result.date, result.store_id>>) =>
             LET thenOther == AfterRun(ledger, other)
                 otherFirst == AfterRun(AfterRun(result.before, other),
                                        <<result.date, result.store_id>>)
             IN /\ ContentSet(thenOther) = ContentSet(otherFirst)
                /\ Cardinality(thenOther) = Cardinality(otherFirst)

\* A store-filtered run that replaced the records of its scope while the
\* ledger held records of another store of the same date.
C23_Witness ==
  /\ RunOk /\ result.store_id # NoStore
  /\ ScopeOf(ledger) # {} /\ ScopeOf(result.before) # {}
  /\ ScopeOf(ledger) \cap result.before = {}
  /\ \E r \in ledger :
       /\ r.reconciliation_date = result.date /\ r.store_id # result.store_id
       /\ r \in result.before

\* C24: the records of a reconcileDate run depend on the stored orders and
\* cash reports of its scope only: whatever the ledger held before, the
\* returned records and the records of the scope afterwards have the
\* content that the same run over an empty ledger produces, and no record
\* that was in the ledger before the run is in the scope after it.
C24_FreshFromScratch ==
  RunOk =>
    LET scratch == AfterRun({}, <<result.date, result.store_id>>)
    IN /\ ContentSet(Range(result.records)) = ContentSet(scratch)
       /\ Len(result.records) = Cardinality(scratch)
       /\ ScopeOf(ledger) = Range(result.records)
       /\ ScopeOf(ledger) \cap result.before = {}

\* A run over a scope whose earlier records, made before the cash reports
\* arrived, said unaccounted for an order the run now finds claimed.
C24_Witness ==
  /\ RunOk
  /\ \E old \in ScopeOf(result.before), new \in ScopeOf(ledger) :
       /\ old.order_id = new.order_id
       /\ old.status = "unaccounted" /\ new.status # "unaccounted"
  /\ \E old \in ScopeOf(result.before), new \in ScopeOf(ledger) :
       /\ old.order_id = new.order_id
       /\ old.status # "unaccounted" /\ Content(old) # Content(new)

\* C25 as claimed: in every record with a claiming report the stored
\* variance_amount is the stored actual_amount minus the stored
\* expected_amount, and, the stored expected_amount not being 0, the stored
\* variance_pct is variance_amount / expected_amount * 100 rounded to the
\* nearest hundredth.
C25_StoredVarianceConsistent ==
  RunOk =>
    \A k \in 1..Len(result.records) :
      LET r == result.records[k]
      IN r.report_id # NULL =>
           /\ r.variance_amount = Some(r.actual_amount[1] - r.expected_amount)
           /\ r.expected_amount # 0 =>
                Abs(r.variance_pct[1] * r.expected_amount
                      - 10000 * r.variance_amount[1]) <= r.expected_amount \div 2

\* C26: every ledger record has the order_id of a stored order, the
\* store_id of that order and its pickup_date as reconciliation_date, and
\* the ledger holds at most one record per order_id, after any sequence of
\* uploads and reconciliation runs.
C26_RecordsFollowOrders ==
  /\ \A r \in ledger :
       \E i \in 1..Len(orders) :
         /\ orders[i].order_id = r.order_id
         /\ orders[i].store_id = r.store_id
         /\ orders[i].pickup_date = r.reconciliation_date
  /\ \A r1 \in ledger, r2 \in ledger : r1.order_id = r2.order_id => r1 = r2

\* A second run wrote into a ledger that held records: records of two
\* dates and two stores, while an upload had been refused an order id that
\* was stored with another store.
C26_Witness ==
  /\ RunOk /\ result.before # {}
  /\ \E r \in ledger : r.reconciliation_date = "D1" /\ r.store_id = "S1"
  /\ \E r \in ledger : r.reconciliation_date = "D2"
  /\ \E r \in ledger : r.store_id = "S2"
  /\ Len(orders) = 4

\* C27: in every ledger record the status is one of the four declared
\* values; it is unaccounted exactly when report_id is NULL, exactly when
\* actual_amount is NULL, exactly when variance_amount and variance_pct are
\* NULL; a matched record has variance_amount 0, variance_pct 0 and
\* is_high_priority 0; an over_collection record has variance_amount > 0
\* and an under_collection record variance_amount < 0.
C27_RecordConsistent ==
  \A r \in ledger :
    /\ r.status \in {"matched", "over_collection", "under_collection", "unaccounted"}
    /\ (r.status = "unaccounted") <=> (r.report_id = NULL)
    /\ (r.status = "unaccounted") <=> (r.actual_amount = NULL)
    /\ (r.status = "unaccounted") <=> (r.variance_amount = NULL /\ r.variance_pct = NULL)
    /\ (r.status = "unaccounted") <=> (r.variance_amount = NULL \/ r.variance_pct = NULL)
    /\ r.status = "matched" =>
         /\ r.variance_amount = Some(0)
         /\ r.variance_pct = Some(0)
         /\ r.is_high_priority = 0
    /\ r.status = "over_collection" => r.variance_amount[1] > 0
    /\ r.status = "under_collection" => r.variance_amount[1] < 0

\* A ledger with an unaccounted record next to a matched record of an order
\* that expects a positive amount.
C27_Witness ==
  /\ RunOk
  /\ \E r \in ledger : r.status = "unaccounted" /\ r.expected_amount > 0
  /\ \E r \in ledger : r.status = "matched" /\ r.expected_amount > 0

\* What the unfiltered reconcileDate of the date of the last call returns.
UnfilteredRecords ==
  ComputeRecords(FetchOrders(orders, result.date, NoStore),
                 FetchReports(reports, result.date, NoStore), result.date, 0)

\* C28 as claimed: the record a store-filtered reconcileDate produces for
\* an order has the content of the record the unfiltered reconcileDate of
\* the same date produces for it, whatever the cash reports of the date.
C28_FilterOnlyRestricts ==
  (RunOk /\ result.store_id # NoStore) =>
    \A k \in 1..Len(result.records), m \in 1..Len(UnfilteredRecords) :
      UnfilteredRecords[m].order_id = result.records[k].order_id =>
        Content(UnfilteredRecords[m]) = Content(result.records[k])

\* C29 as claimed: when a reconcileDate run has committed, the order ids
\* with a ledger record in its scope are the ids of the orders of the scope
\* that the orders table holds at that moment, uploads running concurrently
\* or not.
C29_CommitCoversStoredOrders ==
  (RunOk /\ writer = "none") =>
    {r.order_id : r \in ScopeOf(ledger)} = {orders[i].order_id : i \in ScopeOrders}

\* The fetched cash report that the record r names.
FineReportOf(r) ==
  reports[CHOOSE i \in 1..Len(reports) : Some(reports[i].report_id) = r.report_id]

\* C30 as claimed: expected amounts and totals not being negative, every
\* record with a claiming report R has 0 <= actual_amount <=
\* R.total_collected.
C30_ShareWithinTotal ==
  RunOk =>
    \A k \in 1..Len(result.records) :
      LET r == result.records[k]
      IN r.report_id # NULL =>
           /\ 0 <= r.actual_amount[1]
           /\ 2 * r.actual_amount[1] <= FineReportOf(r).total_halves

\* C30 amended: every record with a claiming report R has 0 <=
\* actual_amount <= round2(R.total_collected), the total rounded to 2
\* decimals, which is the total itself when it has no third decimal.
C30_ShareWithinRoundedTotal ==
  RunOk =>
    \A k \in 1..Len(result.records) :
      LET r == result.records[k]
          T == FineReportOf(r).total_halves
      IN r.report_id # NULL =>
           /\ 0 <= r.actual_amount[1]
           /\ r.actual_amount[1] <= round2(T, 2, T \in FineTotalBelowTie)
           /\ T % 2 = 0 => 2 * r.actual_amount[1] <= T

\* A report of total 10.05 split over two orders with positive amounts,
\* each share positive and below the total.
C30_Witness ==
  /\ RunOk /\ Len(result.records) = 2
  /\ reports[1].total_halves = 2010
  /\ \A k \in 1..2 :
       /\ result.records[k].report_id = Some("R1")
       /\ result.records[k].actual_amount[1] > 0
       /\ result.records[k].actual_amount[1] < 1005

====
